---- MODULE Spec2Model ----
(***************************************************************************)
(* Model of src/src/math_definitions.h: the vector algebra, reflect(),     *)
(* SphereGeometry::intersect and Actor::intersect.                         *)
(*                                                                         *)
(* Numbers.  The program computes in IEEE doubles.  The model computes the *)
(* same expressions, operation by operation, in exact real arithmetic:     *)
(* every value the program can produce from rational inputs with +, -, *,  *)
(* / and std::sqrt is represented exactly, so rounding error is the one    *)
(* thing that is not modelled.  The IEEE special values that the unguarded *)
(* divisions produce (1./0 = inf, 0*inf = NaN, 0/0 = NaN) are modelled.    *)
(*                                                                         *)
(*   F    an element of Q(sqrt r):  [a, b, d, r]  =  (a + b*sqrt(r)) / d   *)
(*        with d > 0, gcd(a, b, d) = 1, r squarefree > 1 (r = 0 iff b = 0) *)
(*   Real a double: [k |-> "nan"], [k |-> "inf", sg |-> +-1] or            *)
(*        [k |-> "fin", c |-> F, s |-> F]  =  c * sqrt(s),  s > 0          *)
(*                                                                         *)
(* An operation whose exact result has no such representation matches no   *)
(* CASE arm, which stops the model checker instead of returning a wrong    *)
(* number.                                                                 *)
(***************************************************************************)
EXTENDS Integers, Sequences, FiniteSets, TLC

---------------------------------------------------------------------------
(* Integer helpers *)

Abs(n) == IF n < 0 THEN -n ELSE n

Sgn(n) == IF n < 0 THEN -1 ELSE IF n = 0 THEN 0 ELSE 1

RECURSIVE GCD(_, _)
GCD(m, n) == IF n = 0 THEN m ELSE GCD(n, m % n)

\* n = k*k*m with m squarefree, found by trial division from f upwards.
RECURSIVE SquarePart(_, _, _)
SquarePart(n, f, k) ==
    IF f * f > n THEN [k |-> k, m |-> n]
    ELSE IF n % (f * f) = 0 THEN SquarePart(n \div (f * f), f, k * f)
    ELSE SquarePart(n, f + 1, k)

---------------------------------------------------------------------------
(* Q(sqrt r) *)

FNorm(a, b, d, r) ==
    LET rr == IF b = 0 \/ r = 0 THEN 0 ELSE r
        bb == IF rr = 0 THEN 0 ELSE b
        g  == GCD(GCD(Abs(a), Abs(bb)), Abs(d))
        sg == IF d < 0 THEN -1 ELSE 1
    IN  [a |-> sg * (a \div g), b |-> sg * (bb \div g), d |-> Abs(d) \div g, r |-> rr]

FRat(n, d) == FNorm(n, 0, d, 0)

FInt(n) == [a |-> n, b |-> 0, d |-> 1, r |-> 0]

FIsRat(x) == x.b = 0

\* the radicand two operands share
FRad(x, y) ==
    CASE x.b = 0 -> y.r
      [] y.b = 0 -> x.r
      [] x.r = y.r -> x.r

FAdd(x, y) ==
    FNorm(x.a * y.d + y.a * x.d, x.b * y.d + y.b * x.d, x.d * y.d, FRad(x, y))

FNeg(x) == [a |-> -x.a, b |-> -x.b, d |-> x.d, r |-> x.r]

FMul(x, y) ==
    LET r == FRad(x, y)
    IN  FNorm(x.a * y.a + x.b * y.b * r, x.a * y.b + x.b * y.a, x.d * y.d, r)

\* 1 / x, x # 0:  d * (a - b*sqrt r) / (a*a - b*b*r)
FInv(x) == FNorm(x.d * x.a, -(x.d * x.b), x.a * x.a - x.b * x.b * x.r, x.r)

\* sign of a + b*sqrt(r)
FSign(x) ==
    CASE x.b = 0 -> Sgn(x.a)
      [] x.b # 0 /\ x.a = 0 -> Sgn(x.b)
      [] x.b # 0 /\ x.a # 0 /\ Sgn(x.a) = Sgn(x.b) -> Sgn(x.a)
      [] x.b # 0 /\ x.a # 0 /\ Sgn(x.a) # Sgn(x.b) ->
            Sgn(x.a) * Sgn(x.a * x.a - x.b * x.b * x.r)

---------------------------------------------------------------------------
(* Doubles *)

NaN == [k |-> "nan"]

Inf(sg) == [k |-> "inf", sg |-> sg]

IsFin(x) == x.k = "fin"

\* c * sqrt(s) for s > 0; a rational s = n/d is reduced to its squarefree part
RNorm(c, s) ==
    IF s = FInt(1) THEN [k |-> "fin", c |-> c, s |-> s]
    ELSE IF FSign(c) = 0 THEN [k |-> "fin", c |-> FInt(0), s |-> FInt(1)]
    ELSE IF FIsRat(s)
         THEN LET p == SquarePart(s.a * s.d, 2, 1)
              IN  [k |-> "fin", c |-> FMul(c, FRat(p.k, s.d)), s |-> FInt(p.m)]
         ELSE [k |-> "fin", c |-> c, s |-> s]

RFrac(n, d) == RNorm(FRat(n, d), FInt(1))

R(n) == RFrac(n, 1)

RSign(x) == FSign(x.c)

RIsZero(x) == IsFin(x) /\ RSign(x) = 0

RNeg(x) ==
    CASE x.k = "nan" -> NaN
      [] x.k = "inf" -> Inf(-x.sg)
      [] x.k = "fin" -> [k |-> "fin", c |-> FNeg(x.c), s |-> x.s]

RMul(x, y) ==
    CASE x.k = "nan" \/ y.k = "nan" -> NaN
      [] x.k = "inf" /\ y.k = "inf" -> Inf(x.sg * y.sg)
      [] x.k = "inf" /\ y.k = "fin" -> IF RSign(y) = 0 THEN NaN ELSE Inf(x.sg * RSign(y))
      [] x.k = "fin" /\ y.k = "inf" -> IF RSign(x) = 0 THEN NaN ELSE Inf(y.sg * RSign(x))
      [] x.k = "fin" /\ y.k = "fin" ->
            IF x.s = FInt(1) /\ y.s = FInt(1) THEN RNorm(FMul(x.c, y.c), FInt(1))
            ELSE IF x.s = y.s THEN RNorm(FMul(FMul(x.c, y.c), x.s), FInt(1))
            ELSE RNorm(FMul(x.c, y.c), FMul(x.s, y.s))

\* 1. / x
RInv(x) ==
    CASE x.k = "nan" -> NaN
      [] x.k = "inf" -> R(0)
      [] x.k = "fin" /\ RSign(x) = 0 -> Inf(1)
      [] x.k = "fin" /\ RSign(x) # 0 ->
            IF x.s = FInt(1) THEN RNorm(FInv(x.c), FInt(1))
            ELSE RNorm(FInv(x.c), FInv(x.s))

\* x / y
RDiv(x, y) ==
    CASE x.k = "nan" \/ y.k = "nan" -> NaN
      [] x.k = "inf" /\ y.k = "inf" -> NaN
      [] x.k = "inf" /\ y.k = "fin" -> Inf(x.sg * (IF RSign(y) < 0 THEN -1 ELSE 1))
      [] x.k = "fin" /\ y.k = "inf" -> R(0)
      [] x.k = "fin" /\ y.k = "fin" /\ RSign(y) = 0 ->
            IF RSign(x) = 0 THEN NaN ELSE Inf(RSign(x))
      [] x.k = "fin" /\ y.k = "fin" /\ RSign(y) # 0 -> RMul(x, RInv(y))

\* c * sqrt(s) as an element of Q(sqrt r)
ToF(x) ==
    CASE x.s = FInt(1) -> x.c
      [] x.s # FInt(1) /\ FIsRat(x.s) /\ FIsRat(x.c) -> FNorm(0, x.c.a, x.c.d, x.s.a)

RAdd(x, y) ==
    CASE x.k = "nan" \/ y.k = "nan" -> NaN
      [] x.k = "inf" /\ y.k = "inf" -> IF x.sg = y.sg THEN x ELSE NaN
      [] x.k = "inf" /\ y.k = "fin" -> x
      [] x.k = "fin" /\ y.k = "inf" -> y
      [] x.k = "fin" /\ y.k = "fin" ->
            IF RSign(x) = 0 THEN y
            ELSE IF RSign(y) = 0 THEN x
            ELSE IF x.s = y.s THEN RNorm(FAdd(x.c, y.c), x.s)
            ELSE RNorm(FAdd(ToF(x), ToF(y)), FInt(1))

RSub(x, y) == RAdd(x, RNeg(y))

\* std::sqrt
RSqrt(x) ==
    CASE x.k = "nan" -> NaN
      [] x.k = "inf" -> IF x.sg > 0 THEN x ELSE NaN
      [] x.k = "fin" /\ RSign(x) < 0 -> NaN
      [] x.k = "fin" /\ RSign(x) = 0 -> x
      [] x.k = "fin" /\ RSign(x) > 0 /\ x.s = FInt(1) -> RNorm(FInt(1), x.c)
      [] x.k = "fin" /\ RSign(x) > 0 /\ x.s # FInt(1) /\ FIsRat(x.c) /\ FIsRat(x.s) ->
            RNorm(FInt(1), ToF(x))

\* the square of a finite double, in Q(sqrt r)
FSquare(x) == FMul(FMul(x.c, x.c), x.s)

\* x == y (false whenever an operand is NaN)
REq(x, y) ==
    CASE x.k = "nan" \/ y.k = "nan" -> FALSE
      [] x.k = "inf" /\ y.k = "inf" -> x.sg = y.sg
      [] x.k = "inf" /\ y.k = "fin" -> FALSE
      [] x.k = "fin" /\ y.k = "inf" -> FALSE
      [] x.k = "fin" /\ y.k = "fin" ->
            RSign(x) = RSign(y) /\ FSquare(x) = FSquare(y)

\* sign of d*i + c for d > 0, without forming the product
SgnLin(d, i, c) ==
    LET q == (-c) \div d
    IN  IF i > q THEN 1 ELSE IF i = q /\ (-c) % d = 0 THEN 0 ELSE -1

\* sign of x - n/d for x in Q(sqrt r) and d > 0; the squares are compared as
\* d*d*(a*a - b*b*r) - 2*d*a*n*x.d + n*n*x.d*x.d, which stays in range for d = 10^4
FCmpRat(x, n, d) ==
    LET X == d * x.a - n * x.d
        Y == d * x.b
    IN  CASE Y = 0 -> Sgn(X)
          [] Y # 0 /\ X = 0 -> Sgn(Y)
          [] Y # 0 /\ X # 0 /\ Sgn(X) = Sgn(Y) -> Sgn(X)
          [] Y # 0 /\ X # 0 /\ Sgn(X) # Sgn(Y) ->
                Sgn(X) * SgnLin(d, d * (x.a * x.a - x.b * x.b * x.r) - 2 * x.a * n * x.d,
                                n * n * x.d * x.d)

\* sign of x - y
FCmp(x, y) ==
    IF FIsRat(y) THEN FCmpRat(x, y.a, y.d)
    ELSE IF FIsRat(x) THEN -FCmpRat(y, x.a, x.d)
    ELSE FSign(FAdd(x, FNeg(y)))

\* x < y (false whenever an operand is NaN)
RLt(x, y) ==
    CASE x.k = "nan" \/ y.k = "nan" -> FALSE
      [] x.k = "inf" /\ y.k = "inf" -> x.sg < y.sg
      [] x.k = "inf" /\ y.k = "fin" -> x.sg < 0
      [] x.k = "fin" /\ y.k = "inf" -> y.sg > 0
      [] x.k = "fin" /\ y.k = "fin" -> FCmp(ToF(x), ToF(y)) < 0

RGt(x, y) == RLt(y, x)

---------------------------------------------------------------------------
(* Constants *)

\* PBR_EPSILON = 1e-4 = 1 / EpsilonDen
EpsilonDen == 10000

PBR_EPSILON == RFrac(1, EpsilonDen)

---------------------------------------------------------------------------
(* struct Vec and the free functions on it *)

Vec(x, y, z) == [x |-> x, y |-> y, z |-> z]

\* Vec(double scalar = 0.0)
VecScalar(s) == Vec(s, s, s)

\* a Vec with integer components
VecI(x, y, z) == Vec(R(x), R(y), R(z))

sqlen(v) == RAdd(RAdd(RMul(v.x, v.x), RMul(v.y, v.y)), RMul(v.z, v.z))

len(v) == RSqrt(sqlen(v))

\* Vec::operator*(double)
VScale(v, s) == Vec(RMul(v.x, s), RMul(v.y, s), RMul(v.z, s))

\* Vec::operator*(const Vec&)
VMul(a, b) == Vec(RMul(a.x, b.x), RMul(a.y, b.y), RMul(a.z, b.z))

\* Vec::operator/(double)
VDiv(v, s) == VScale(v, RInv(s))

\* Vec::operator+
VAdd(a, b) == Vec(RAdd(a.x, b.x), RAdd(a.y, b.y), RAdd(a.z, b.z))

\* Vec::operator-
VSub(a, b) == VAdd(a, VScale(b, R(-1)))

normalize(v) == VDiv(v, len(v))

dot(a, b) == RAdd(RAdd(RMul(a.x, b.x), RMul(a.y, b.y)), RMul(a.z, b.z))

cosv(a, b) == dot(normalize(a), normalize(b))

cross(a, b) ==
    Vec(RSub(RMul(a.y, b.z), RMul(a.z, b.y)),
        RSub(RMul(a.z, b.x), RMul(a.x, b.z)),
        RSub(RMul(a.x, b.y), RMul(a.y, b.x)))

\* reflect with the factor v.len() forgotten
reflect_NoLen(v, n) == VSub(v, VScale(VScale(n, R(2)), cosv(v, n)))

reflect(v, n) == VSub(v, VScale(VScale(VScale(n, R(2)), cosv(v, n)), len(v)))

\* componentwise ==
VEq(a, b) == REq(a.x, b.x) /\ REq(a.y, b.y) /\ REq(a.z, b.z)

---------------------------------------------------------------------------
(* struct SphereGeometry *)

\* Vec op = ray.origin - center
QuadOp(g, ray) == VSub(ray.origin, g.center)

\* double A = ray.direction.sqlen()
QuadA(g, ray) == sqlen(ray.direction)

\* double B = 2 * dot(op, ray.direction)
QuadB(g, ray) == RMul(R(2), dot(QuadOp(g, ray), ray.direction))

\* C with the radius not squared
QuadC_NoSquare(g, ray) == RSub(sqlen(QuadOp(g, ray)), g.radius)

\* double C = op.sqlen() - radius * radius
\* (radius is a float and the product a float product: exact for the radii modelled)
QuadC(g, ray) == RSub(sqlen(QuadOp(g, ray)), RMul(g.radius, g.radius))

\* the discriminant with the factor 4 forgotten
Discriminant_NoFour(A, B, C) == RSub(RMul(B, B), RMul(A, C))

\* double D = B * B - 4 * A * C
Discriminant(A, B, C) == RSub(RMul(B, B), RMul(RMul(R(4), A), C))

\* double t1 = (-1 * B + D) / (2 * A), D being std::sqrt(D) by now
RootT1(A, B, D) == RDiv(RAdd(RMul(R(-1), B), D), RMul(R(2), A))

\* t2 with the sign of D slipped
RootT2_Plus(A, B, D) == RDiv(RAdd(RMul(R(-1), B), D), RMul(R(2), A))

\* double t2 = (-1 * B - D) / (2 * A)
RootT2(A, B, D) == RDiv(RSub(RMul(R(-1), B), D), RMul(R(2), A))

\* the root test on the magnitude of t2: a root behind the origin passes
SelectRoot_Abs(ray, point, t1, t2) ==
    IF RGt(t1, PBR_EPSILON) /\ RLt(t1, t2)
    THEN [ret |-> TRUE, point |-> VAdd(ray.origin, VScale(ray.direction, t1)),
          branch |-> "t1"]
    ELSE IF RGt(t2, PBR_EPSILON) \/ RLt(t2, RNeg(PBR_EPSILON))
    THEN [ret |-> TRUE, point |-> VAdd(ray.origin, VScale(ray.direction, t2)),
          branch |-> "t2"]
    ELSE [ret |-> FALSE, point |-> point, branch |-> "nohit"]

\* the comparison of the two roots turned around
SelectRoot_Swapped(ray, point, t1, t2) ==
    IF RGt(t1, PBR_EPSILON) /\ RGt(t1, t2)
    THEN [ret |-> TRUE, point |-> VAdd(ray.origin, VScale(ray.direction, t1)),
          branch |-> "t1"]
    ELSE IF RGt(t2, PBR_EPSILON)
    THEN [ret |-> TRUE, point |-> VAdd(ray.origin, VScale(ray.direction, t2)),
          branch |-> "t2"]
    ELSE [ret |-> FALSE, point |-> point, branch |-> "nohit"]

\* the if / else if / else over t1 and t2
SelectRoot(ray, point, t1, t2) ==
    IF RGt(t1, PBR_EPSILON) /\ RLt(t1, t2)
    THEN [ret |-> TRUE, point |-> VAdd(ray.origin, VScale(ray.direction, t1)),
          branch |-> "t1"]
    ELSE IF RGt(t2, PBR_EPSILON)
    THEN [ret |-> TRUE, point |-> VAdd(ray.origin, VScale(ray.direction, t2)),
          branch |-> "t2"]
    ELSE [ret |-> FALSE, point |-> point, branch |-> "nohit"]

\* if (D < 0) return false; else D = std::sqrt(D); and what follows
SolveQuadratic(ray, point, A, B, D) ==
    IF RLt(D, R(0))
    THEN [ret |-> FALSE, point |-> point, branch |-> "nosolution"]
    ELSE SelectRoot(ray, point, RootT1(A, B, RSqrt(D)), RootT2(A, B, RSqrt(D)))

\* bool SphereGeometry::intersect(const Ray& ray, Vec& point) const
\* the result: the return value, the out-parameter and the return statement reached
SphereIntersect(g, ray, point) ==
    SolveQuadratic(ray, point, QuadA(g, ray), QuadB(g, ray),
                   Discriminant(QuadA(g, ray), QuadB(g, ray), QuadC(g, ray)))

---------------------------------------------------------------------------
(* struct Actor *)

\* param without the division by the length of the direction
FillHit_NoDivide(a, ray, hit, r) ==
    IF r.ret
    THEN [ret |-> TRUE,
          hit |-> [param    |-> len(VSub(r.point, ray.origin)),
                   point    |-> r.point,
                   material |-> a.material,
                   normal   |-> normalize(VSub(r.point, a.geometry.center))],
          branch |-> r.branch]
    ELSE [ret |-> FALSE, hit |-> hit, branch |-> r.branch]

\* the normal not normalized
FillHit_RawNormal(a, ray, hit, r) ==
    IF r.ret
    THEN [ret |-> TRUE,
          hit |-> [param    |-> RDiv(len(VSub(r.point, ray.origin)), len(ray.direction)),
                   point    |-> r.point,
                   material |-> a.material,
                   normal   |-> VSub(r.point, a.geometry.center)],
          branch |-> r.branch]
    ELSE [ret |-> FALSE, hit |-> hit, branch |-> r.branch]

\* hit.point written before the result of geometry.intersect is looked at
FillHit_EarlyWrite(a, ray, hit, r) ==
    IF r.ret
    THEN [ret |-> TRUE,
          hit |-> [param    |-> RDiv(len(VSub(r.point, ray.origin)), len(ray.direction)),
                   point    |-> r.point,
                   material |-> a.material,
                   normal   |-> normalize(VSub(r.point, a.geometry.center))],
          branch |-> r.branch]
    ELSE [ret |-> FALSE, hit |-> [hit EXCEPT !.point = r.point], branch |-> r.branch]

\* the body of Actor::intersect once geometry.intersect(ray, point) has returned r
FillHit(a, ray, hit, r) ==
    IF r.ret
    THEN [ret |-> TRUE,
          hit |-> [param    |-> RDiv(len(VSub(r.point, ray.origin)), len(ray.direction)),
                   point    |-> r.point,
                   material |-> a.material,
                   normal   |-> normalize(VSub(r.point, a.geometry.center))],
          branch |-> r.branch]
    ELSE [ret |-> FALSE, hit |-> hit, branch |-> r.branch]

\* bool Actor::intersect(const Ray& ray, HitResult& hit) const
\* the result: the return value and the caller's HitResult afterwards
ActorIntersect(a, ray, hit) ==
    FillHit(a, ray, hit, SphereIntersect(a.geometry, ray, VecScalar(R(0))))

---------------------------------------------------------------------------
(* Bounds of the inputs *)

\* ray origins: the points of the plane z = 0 with x and y in -MaxCoord..MaxCoord
MaxCoord == 2

\* ray directions: every sign pattern (the zero vector included) times 1..MaxDir
MaxDir == 1

\* sphere radii: -1..MaxRadius (the type does not exclude radius <= 0)
MaxRadius == 2

\* the ray of the example "origin (0,0,-5), direction (1,0,0)" starts outside the plane
ExampleOrigin == VecI(0, 0, -5)

Origins ==
    { VecI(x, y, 0) : x \in -MaxCoord..MaxCoord, y \in -MaxCoord..MaxCoord }
        \cup {ExampleOrigin}

Signs == {-1, 0, 1}

Directions == { VecI(k * x, k * y, k * z) : x \in Signs, y \in Signs, z \in Signs,
                                            k \in 1..MaxDir }

Centers == { VecI(0, 0, 0), VecI(1, -1, 1) }

Radii == { R(r) : r \in -1..MaxRadius }

Rays == [origin : Origins, direction : Directions]

Geometries == [center : Centers, radius : Radii]

\* struct Material: the one the actor carries, and the one in the caller's HitResult
ActorMaterial ==
    [color |-> VecI(1, 0, 0), emission |-> VecI(0, 0, 0), type |-> "SPECULAR"]

StaleMaterial ==
    [color |-> VecI(0, 1, 0), emission |-> VecI(1, 1, 1), type |-> "DIFFUSE"]

Actors == [material : {ActorMaterial}, geometry : Geometries]

\* the caller's HitResult before the call: what an earlier query left in it
StaleHit ==
    [param |-> R(7), point |-> VecI(7, 7, 7), normal |-> VecI(0, 0, 1),
     material |-> StaleMaterial]

\* arguments of reflect: v any direction, n an axis vector, a rational unit
\* vector, a vector that is not unit length, or the zero vector
Incidents == Directions

Normals ==
    { VecI(1, 0, 0), VecI(0, -1, 0), VecI(0, 0, 1),
      Vec(RFrac(3, 5), RFrac(4, 5), R(0)), Vec(RFrac(-2, 3), RFrac(1, 3), RFrac(2, 3)),
      VecI(1, 1, 0), VecI(0, 2, 0), VecI(1, -1, 1), VecI(2, 2, 1), VecI(0, 0, 0) }

---------------------------------------------------------------------------
(* State *)

VARIABLES
    call,     \* the function being called
    pc,       \* "call" before it runs, "return" after
    ray,      \* const Ray& ray
    actor,    \* the Actor (its geometry is the SphereGeometry)
    point,    \* Vec& point of SphereGeometry::intersect
    hit,      \* HitResult& hit of Actor::intersect
    ret,      \* the bool returned
    branch,   \* the return statement of SphereGeometry::intersect that was reached
    v, n,     \* the arguments of reflect
    reflected \* the Vec reflect returned

vars == <<call, pc, ray, actor, point, hit, ret, branch, v, n, reflected>>

DefaultRay == [origin |-> VecI(0, 0, 0), direction |-> VecI(0, 0, 0)]

DefaultActor ==
    [material |-> ActorMaterial, geometry |-> [center |-> VecI(0, 0, 0), radius |-> R(1)]]

Init ==
    /\ pc = "call"
    /\ ret = FALSE
    /\ branch = "none"
    /\ point = VecScalar(R(0))
    /\ hit = StaleHit
    /\ reflected = VecScalar(R(0))
    /\ \/ /\ call \in {"SphereGeometry::intersect", "Actor::intersect"}
          /\ ray \in Rays
          /\ actor \in Actors
          /\ v = VecI(0, 0, 0)
          /\ n = VecI(0, 0, 0)
       \/ /\ call = "reflect"
          /\ ray = DefaultRay
          /\ actor = DefaultActor
          /\ v \in Incidents
          /\ n \in Normals

\* geometry.intersect(ray, point)
CallSphereIntersect ==
    /\ pc = "call"
    /\ call = "SphereGeometry::intersect"
    /\ \E r \in {SphereIntersect(actor.geometry, ray, point)} :
           /\ ret' = r.ret
           /\ point' = r.point
           /\ branch' = r.branch
    /\ pc' = "return"
    /\ UNCHANGED <<call, ray, actor, hit, v, n, reflected>>

\* actor.intersect(ray, hit)
CallActorIntersect ==
    /\ pc = "call"
    /\ call = "Actor::intersect"
    /\ \E r \in {ActorIntersect(actor, ray, hit)} :
           /\ ret' = r.ret
           /\ hit' = r.hit
           /\ branch' = r.branch
    /\ pc' = "return"
    /\ UNCHANGED <<call, ray, actor, point, v, n, reflected>>

\* reflect(v, n)
CallReflect ==
    /\ pc = "call"
    /\ call = "reflect"
    /\ reflected' = reflect(v, n)
    /\ pc' = "return"
    /\ UNCHANGED <<call, ray, actor, point, hit, ret, branch, v, n>>

Next == CallSphereIntersect \/ CallActorIntersect \/ CallReflect

Spec == Init /\ [][Next]_vars

---------------------------------------------------------------------------
(* What the properties below are stated in *)

SphereReturned == pc = "return" /\ call = "SphereGeometry::intersect"

ActorReturned == pc = "return" /\ call = "Actor::intersect"

ReflectReturned == pc = "return" /\ call = "reflect"

IntersectReturned == SphereReturned \/ ActorReturned

\* the coefficients and roots of the quadratic for the ray and sphere of the state
CurOp == QuadOp(actor.geometry, ray)

CurA == QuadA(actor.geometry, ray)

CurB == QuadB(actor.geometry, ray)

CurC == QuadC(actor.geometry, ray)

\* B^2 - 4AC, written out
DiscOf(A, B, C) == RSub(RMul(B, B), RMul(R(4), RMul(A, C)))

CurD == DiscOf(CurA, CurB, CurC)

\* the larger root (-B + sqrt D) / 2A and the smaller root (-B - sqrt D) / 2A
FarRootOf(A, B, D) == RDiv(RAdd(RNeg(B), RSqrt(D)), RMul(R(2), A))

NearRootOf(A, B, D) == RDiv(RSub(RNeg(B), RSqrt(D)), RMul(R(2), A))

FarRoot == FarRootOf(CurA, CurB, CurD)

NearRoot == NearRootOf(CurA, CurB, CurD)

Eps == RFrac(1, EpsilonDen)

PointAt(t) == VAdd(ray.origin, VScale(ray.direction, t))

NonZeroDirection == RGt(sqlen(ray.direction), R(0))

Radius == actor.geometry.radius

Center == actor.geometry.center

\* the point the call reported
Reported == IF call = "Actor::intersect" THEN hit.point ELSE point

IsUnit(u) == REq(len(u), R(1))

IsNaNVec(u) == u.x.k = "nan" /\ u.y.k = "nan" /\ u.z.k = "nan"

---------------------------------------------------------------------------
(* C1 *)

\* |origin - center| < radius; then the near root is behind the origin
OriginStrictlyInside ==
    /\ NonZeroDirection
    /\ RLt(len(CurOp), Radius)
    /\ ~RGt(NearRoot, Eps)
    /\ RGt(FarRoot, Eps)

\* C1: for a ray with non-zero direction whose origin lies strictly inside the
\* sphere, SphereGeometry::intersect returns true with point = origin +
\* direction * (far root).
C1_FarRootFallback ==
    (SphereReturned /\ OriginStrictlyInside) => (ret /\ VEq(point, PointAt(FarRoot)))

---------------------------------------------------------------------------
(* C2 *)

\* C2 as claimed: on every successful Actor::intersect, hit.param is the Euclidean
\* distance |hit.point - ray.origin|, whatever the length of the direction.
C2_ParamIsDistance ==
    (ActorReturned /\ ret) => REq(hit.param, len(VSub(hit.point, ray.origin)))

\* C2 amended: on every successful Actor::intersect, hit.param is the root t of the
\* quadratic that was taken (|hit.point - ray.origin| / |ray.direction|); it is
\* the Euclidean distance exactly when the direction is unit length.
C2_ParamIsRoot ==
    (ActorReturned /\ ret) =>
        /\ REq(hit.param, NearRoot)
        /\ REq(hit.param, RDiv(len(VSub(hit.point, ray.origin)), len(ray.direction)))
        /\ REq(hit.param, len(VSub(hit.point, ray.origin))) <=> IsUnit(ray.direction)

C2_Witness == ActorReturned /\ ret /\ ~IsUnit(ray.direction)

---------------------------------------------------------------------------
(* C3 *)

OnAxis(o) == Cardinality({ i \in {"x", "y", "z"} : ~RIsZero(o[i]) }) = 1

AxisRayAtCenter ==
    /\ Center = VecI(0, 0, 0)
    /\ RGt(Radius, R(0))
    /\ OnAxis(ray.origin)
    /\ RGt(len(ray.origin), Radius)
    /\ VEq(cross(ray.origin, ray.direction), VecI(0, 0, 0))
    /\ RLt(dot(ray.origin, ray.direction), R(0))

\* C3: sphere of radius r > 0 at the origin, ray from distance d > r on a
\* coordinate axis towards the center: a hit is reported at the near surface
\* point, at distance d - r from the ray origin.
C3_AxisHitAtNearPoint ==
    (IntersectReturned /\ AxisRayAtCenter) =>
        /\ ret
        /\ VEq(Reported, VScale(ray.origin, RDiv(Radius, len(ray.origin))))
        /\ REq(len(VSub(Reported, ray.origin)), RSub(len(ray.origin), Radius))

C3_Witness == ActorReturned /\ AxisRayAtCenter /\ ret

---------------------------------------------------------------------------
(* C4 *)

OnSurfaceOutward ==
    /\ REq(len(CurOp), Radius)
    /\ RGt(dot(CurOp, ray.direction), R(0))

\* C4: a ray that starts on the sphere surface and points outward is not
\* intersected, and the point of every hit is origin + direction * t for a root
\* t > PBR_EPSILON: no root at or below PBR_EPSILON is accepted.
C4_EpsilonGuard ==
    SphereReturned =>
        /\ OnSurfaceOutward => ~ret
        /\ ret => \E t \in {NearRoot, FarRoot} : RGt(t, Eps) /\ VEq(point, PointAt(t))

C4_Witness == SphereReturned /\ OnSurfaceOutward /\ ~ret

---------------------------------------------------------------------------
(* C5 *)

UnitOutwardNormal ==
    /\ REq(len(hit.normal), R(1))
    /\ RGt(dot(hit.normal, VSub(hit.point, Center)), R(0))

\* C5 as claimed: whenever Actor::intersect returns true, hit.normal is unit
\* length and outward-facing, degenerate spheres included.
C5_NormalAlwaysUnitOutward == (ActorReturned /\ ret) => UnitOutwardNormal

\* C5 amended: whenever Actor::intersect returns true with hit.point # center,
\* which is every hit on a sphere of radius # 0 (negative included), hit.normal is
\* unit length and outward-facing; when hit.point = center (a sphere of radius 0
\* hit through its center) every component of hit.normal is NaN.
C5_NormalUnitOutward ==
    (ActorReturned /\ ret) =>
        IF VEq(hit.point, Center)
        THEN RIsZero(Radius) /\ IsNaNVec(hit.normal)
        ELSE UnitOutwardNormal

C5_Witness == ActorReturned /\ ret /\ RLt(Radius, R(0)) /\ ~IsUnit(ray.direction)

---------------------------------------------------------------------------
(* C6 *)

\* C6 as claimed: a sphere with radius <= 0 is never intersected by a ray with
\* non-zero direction.
C6_NonPositiveRadiusNeverHit ==
    (SphereReturned /\ NonZeroDirection /\ ~RGt(Radius, R(0))) => ~ret

MirroredRadius == [actor.geometry EXCEPT !.radius = RNeg(Radius)]

\* C6 amended: a sphere of radius 0 is hit only by a ray whose line passes through
\* the center (discriminant 0), at the center; a negative radius is not rejected:
\* intersect returns what it returns for the radius -radius.
C6_RadiusEntersSquared ==
    (SphereReturned /\ NonZeroDirection) =>
        /\ (RIsZero(Radius) /\ ret) => (RIsZero(CurD) /\ VEq(point, Center))
        /\ RLt(Radius, R(0)) =>
              \E m \in {SphereIntersect(MirroredRadius, ray, VecScalar(R(0)))} :
                  /\ ret = m.ret
                  /\ ret => VEq(point, m.point)

C6_Witness == SphereReturned /\ NonZeroDirection /\ RLt(Radius, R(0)) /\ ret

---------------------------------------------------------------------------
(* C7 *)

GeometryMisses == ~SphereIntersect(actor.geometry, ray, VecScalar(R(0))).ret

\* C7: when the geometry intersection fails, Actor::intersect returns false and
\* leaves every field of the caller's HitResult, the Actor and the Ray unchanged.
C7_FailureLeavesHitUnchanged ==
    [][(pc = "call" /\ call = "Actor::intersect" /\ GeometryMisses) =>
          (~ret' /\ hit' = hit /\ actor' = actor /\ ray' = ray)]_vars

C7_Witness == ActorReturned /\ ~ret /\ hit = StaleHit /\ NonZeroDirection

---------------------------------------------------------------------------
(* C8 *)

\* v - 2*dot(v,n)*n
MirrorReflection == VSub(v, VScale(n, RMul(R(2), dot(v, n))))

NonZero(u) == RGt(sqlen(u), R(0))

\* C8 as claimed: for a unit normal n and non-zero v, reflect(v, n) differs from
\* v - 2*dot(v,n)*n and its length is not the length of v.
C8_NotMirrorReflection ==
    (ReflectReturned /\ IsUnit(n) /\ NonZero(v)) =>
        /\ ~VEq(reflected, MirrorReflection)
        /\ ~REq(len(reflected), len(v))

\* C8 amended: for non-zero v and n, reflect(v, n) = v - 2*dot(v,n)*n / |n|; for a
\* unit normal this is the mirror reflection v - 2*dot(v,n)*n and has the length
\* of v; it differs from the mirror reflection only for a normal that is not unit
\* length (and not perpendicular to v).
C8_ReflectIsMirrorForUnitNormal ==
    (ReflectReturned /\ NonZero(v) /\ NonZero(n)) =>
        /\ VEq(reflected, VSub(v, VScale(n, RDiv(RMul(R(2), dot(v, n)), len(n)))))
        /\ IsUnit(n) => (VEq(reflected, MirrorReflection) /\ REq(len(reflected), len(v)))
        /\ VEq(reflected, MirrorReflection) => (IsUnit(n) \/ RIsZero(dot(v, n)))

C8_Witness ==
    /\ ReflectReturned
    /\ n = Vec(RFrac(3, 5), RFrac(4, 5), R(0))
    /\ ~RIsZero(dot(v, n))
    /\ ~IsUnit(v)

---------------------------------------------------------------------------
(* C9 *)

\* C9: a ray whose discriminant B^2 - 4AC is negative is reported as a miss by
\* SphereGeometry::intersect and by Actor::intersect.
C9_NegativeDiscriminantMisses ==
    (IntersectReturned /\ RLt(CurD, R(0))) => ~ret

C9_Witness ==
    /\ ActorReturned
    /\ ray = [origin |-> ExampleOrigin, direction |-> VecI(1, 0, 0)]
    /\ actor.geometry = [center |-> VecI(0, 0, 0), radius |-> R(1)]
    /\ RLt(CurD, R(0))
    /\ ~ret

---------------------------------------------------------------------------
(* C10 *)

\* C10: t1 >= t2 whenever the direction is non-zero, so the first branch of
\* SphereGeometry::intersect is never taken, and intersect returns true with
\* point = origin + direction * t2 iff D >= 0 and t2 > PBR_EPSILON, and false
\* (point untouched) otherwise.
C10_OnlyNearRootTaken ==
    SphereReturned =>
        /\ branch # "t1"
        /\ NonZeroDirection =>
              \E D \in {CurD}, t1 \in {FarRoot}, t2 \in {NearRoot} :
                  /\ ~RLt(D, R(0)) => ~RLt(t1, t2)
                  /\ ret <=> (~RLt(D, R(0)) /\ RGt(t2, Eps))
                  /\ IF ret THEN VEq(point, PointAt(t2))
                            ELSE point = VecScalar(R(0))

C10_Witness ==
    SphereReturned /\ ret /\ ~RIsZero(CurD) /\ ~IsUnit(ray.direction)

====
